---- MODULE Spec2Model ----
(***************************************************************************)
(* ferris-bot: the Twitch command dispatcher of src/main.rs.               *)
(*                                                                         *)
(* A text is a sequence of one-character strings.  A few fixed texts that  *)
(* are never inspected character by character (the static replies, the     *)
(* included asset files, a login) are kept as one fragment.                *)
(***************************************************************************)
EXTENDS Naturals, Sequences, FiniteSets

VARIABLES
    pc,          \* where the dispatch task (or main, before it) stands
    event,       \* kind of the last item taken from incoming_messages
    msg,         \* the PrivmsgMessage being handled
    cmd,         \* Option<TwitchCommand> that parse_msg returned for msg
    queue,       \* QueueManager's participants, behind ctx.queue_manager
    lockHeld,    \* a MutexGuard of ctx.queue_manager is alive
    reply,       \* the local `reply` of the Queue arm
    effect,      \* the last send handed to a transport while handling msg
    joinResult,  \* what QueueManager::join returned while handling msg
    fmtResult,   \* what format_snippet returned while handling msg
    sendFailed,  \* a twitch_client.say of a command handler returned Err
    joined       \* history: the logins whose join returned Ok, in order

vars == <<pc, event, msg, cmd, queue, lockHeld, reply, effect, joinResult,
          fmtResult, sendFailed, joined>>

-----------------------------------------------------------------------------
(* Bounds and input alphabets *)

MaxPieces == 3

Logins == {"alice", "bob", "carol"}

DisplayName(login) ==
    CASE login = "alice" -> "Alice"
      [] login = "bob" -> "Bob"
      [] login = "carol" -> "Carol"
      [] OTHER -> "name"

ChannelLogin == "channel_login"

T_join == <<"!", "j", "o", "i", "n">>
T_queue == <<"!", "q", "u", "e", "u", "e">>
T_pythonsucks == <<"!", "p", "y", "t", "h", "o", "n", "s", "u", "c", "k", "s">>
T_stonk == <<"!", "s", "t", "o", "n", "k">>
T_cpp == <<"!", "c", "+", "+">>
T_dave == <<"!", "d", "a", "v", "e">>
T_bazylia == <<"!", "b", "a", "z", "y", "l", "i", "a">>
T_zoya == <<"!", "z", "o", "y", "a">>
T_discord == <<"!", "d", "i", "s", "c", "o", "r", "d">>
T_nothing == <<"!", "n", "o", "t", "h", "i", "n", "g">>
T_code == <<"!", "c", "o", "d", "e">>

KnownTokens ==
    {T_join, T_queue, T_pythonsucks, T_stonk, T_cpp, T_dave, T_bazylia,
     T_zoya, T_discord, T_nothing, T_code}

\* The pieces message texts are built from: every trigger token, the
\* separators, and a few fragments that make unknown and near-miss tokens.
Pieces ==
    KnownTokens \cup
    { <<" ">>, <<"\t">>, <<"x">>, <<"+">>, <<"!">>, <<"!", "J", "O", "I", "N">> }

RECURSIVE TextsOf(_)
TextsOf(n) ==
    IF n = 0 THEN { <<>> }
    ELSE LET shorter == TextsOf(n - 1)
         IN shorter \cup { p \o t : p \in Pieces, t \in shorter }

\* The texts the chat sends in the dispatch specification.
DispatchTexts ==
    { T_join, T_queue, T_pythonsucks, T_stonk, T_cpp, T_dave, T_bazylia,
      T_zoya, T_discord, T_nothing,
      T_code \o <<" ", "x", "+", "y">>,
      T_code \o <<" ", "x", " ", " ", "y">>,
      <<"h", "i">>,
      <<"!", "h", "i">> }

-----------------------------------------------------------------------------
(* Text helpers: the std::str operations parse_msg uses *)

WhiteSpace == {" ", "\t", "\n"}

starts_with(s, c) == Len(s) > 0 /\ s[1] = c

RECURSIVE split_from(_, _, _)
split_from(s, i, cur) ==
    IF i > Len(s)
    THEN IF cur = <<>> THEN <<>> ELSE <<cur>>
    ELSE IF s[i] \in WhiteSpace
         THEN (IF cur = <<>> THEN <<>> ELSE <<cur>>) \o split_from(s, i + 1, <<>>)
         ELSE split_from(s, i + 1, Append(cur, s[i]))

split_whitespace(s) == split_from(s, 1, <<>>)

IsPrefix(p, s) == Len(p) <= Len(s) /\ SubSeq(s, 1, Len(p)) = p

RECURSIVE trim_start_matches(_, _)
trim_start_matches(s, pat) ==
    IF Len(pat) > 0 /\ IsPrefix(pat, s)
    THEN trim_start_matches(SubSeq(s, Len(pat) + 1, Len(s)), pat)
    ELSE s

RECURSIVE join_str(_, _)
join_str(items, sep) ==
    IF Len(items) = 0 THEN <<>>
    ELSE IF Len(items) = 1 THEN <<items[1]>>
    ELSE <<items[1]>> \o sep \o join_str(Tail(items), sep)

-----------------------------------------------------------------------------
(* TwitchCommand and parse_msg *)

None == [type |-> "None", arg |-> <<>>]
Join == [type |-> "Join", arg |-> <<>>]
Queue == [type |-> "Queue", arg |-> <<>>]
ReplyWith(text) == [type |-> "ReplyWith", arg |-> <<text>>]
Broadcast(text) == [type |-> "Broadcast", arg |-> <<text>>]
Nothing == [type |-> "Nothing", arg |-> <<>>]
DiscordSnippet(snippet) == [type |-> "DiscordSnippet", arg |-> snippet]

\* Faulty variant of parse_msg: the starts_with test is left out.
parse_msg_unchecked(m) ==
    LET args == split_whitespace(m.message_text)
    IN IF Len(args) = 0 THEN None
       ELSE CASE args[1] = T_join -> Join
              [] args[1] = T_queue -> Queue
              [] args[1] = T_pythonsucks -> ReplyWith("This must be Lord")
              [] args[1] = T_stonk -> ReplyWith("yOu shOULd Buy AMC sTOnKS")
              [] args[1] = T_cpp -> ReplyWith("segmentation fault")
              [] args[1] = T_dave -> Broadcast("assets/dave.txt")
              [] args[1] = T_bazylia -> Broadcast("assets/bazylia.txt")
              [] args[1] = T_zoya -> Broadcast("assets/zoya.txt")
              [] args[1] = T_discord -> Broadcast("https://discord.gg/UyrsFX7N")
              [] args[1] = T_nothing -> Nothing
              [] args[1] = T_code ->
                    DiscordSnippet(trim_start_matches(m.message_text, T_code \o <<" ">>))
              [] OTHER -> None

parse_msg(m) ==
    IF ~starts_with(m.message_text, "!")
    THEN None
    ELSE LET args == split_whitespace(m.message_text)
         IN CASE args[1] = T_join -> Join
              [] args[1] = T_queue -> Queue
              [] args[1] = T_pythonsucks -> ReplyWith("This must be Lord")
              [] args[1] = T_stonk -> ReplyWith("yOu shOULd Buy AMC sTOnKS")
              [] args[1] = T_cpp -> ReplyWith("segmentation fault")
              [] args[1] = T_dave -> Broadcast("assets/dave.txt")
              [] args[1] = T_bazylia -> Broadcast("assets/bazylia.txt")
              [] args[1] = T_zoya -> Broadcast("assets/zoya.txt")
              [] args[1] = T_discord -> Broadcast("https://discord.gg/UyrsFX7N")
              [] args[1] = T_nothing -> Nothing
              [] args[1] = T_code ->
                    DiscordSnippet(trim_start_matches(m.message_text, T_code \o <<" ">>))
              [] OTHER -> None

-----------------------------------------------------------------------------
(* QueueManager (module queue_manager) *)

QueueNew == <<>>

QueueSnapshot(q) == [i \in 1..Len(q) |-> q[i].identity]

\* Faulty variant of QueueJoin: a new participant is put at the front.
QueueJoinFront(q, identity, role) ==
    IF \E i \in 1..Len(q) : q[i].identity = identity
    THEN [result |-> "AlreadyQueued", queue |-> q]
    ELSE [result |-> "Ok", queue |-> <<[identity |-> identity, role |-> role]>> \o q]

QueueJoin(q, identity, role) ==
    IF \E i \in 1..Len(q) : q[i].identity = identity
    THEN [result |-> "AlreadyQueued", queue |-> q]
    ELSE [result |-> "Ok", queue |-> Append(q, [identity |-> identity, role |-> role])]

-----------------------------------------------------------------------------
(* format_snippet: rustfmt run as a child process *)

FormatErr == [ok |-> FALSE, out |-> <<>>]
FormatOk(out) == [ok |-> TRUE, out |-> out]
NoFormat == [ok |-> FALSE, out |-> <<"-">>]

\* What a successful rustfmt may print for a snippet: the formatter is an
\* external program, so its output is one of several texts, none of them
\* required to equal the input.
RustfmtStdout(snippet) ==
    { Append(snippet, "\n"),
      SelectSeq(snippet, LAMBDA c : c \notin WhiteSpace) \o <<"\n">>,
      <<>> }

format_snippet(snippet) == {FormatErr} \cup {FormatOk(o) : o \in RustfmtStdout(snippet)}

-----------------------------------------------------------------------------
(* Outbound sends *)

NoEffect == [chan |-> "none", to |-> "", text |-> <<>>]
TwitchSay(channel, text) == [chan |-> "twitch", to |-> channel, text |-> text]
DiscordSay(text) == [chan |-> "discord", to |-> "discord.channel_id", text |-> text]

\* U+0060, which a TLA+ string literal cannot hold.
Backtick == "<U+0060>"

FenceOpen == <<Backtick, Backtick, Backtick, "r", "s", "\n">>
FenceClose == <<"\n", Backtick, Backtick, Backtick>>

\* Faulty variant of JoinReplyText: addresses the display name.
JoinReplyTextByName(m) == <<"@", m.sender.name, ": Join requested">>

JoinReplyText(m) == <<"@", m.sender.login, ": Join requested">>

QueueReplyText(m, r) == <<"@", m.sender.login, ": Current queue: ">> \o r

ReplyText(m, r) == <<"@", m.sender.login, ": ">> \o r

-----------------------------------------------------------------------------
(* Messages *)

test_msg(text, login) ==
    [channel_login |-> ChannelLogin,
     message_text |-> text,
     sender |-> [login |-> login, name |-> DisplayName(login)]]

NoMsg == test_msg(<<>>, "login")

Init ==
    /\ pc = "hello_say"
    /\ event = "none"
    /\ msg = NoMsg
    /\ cmd = None
    /\ queue = QueueNew
    /\ lockHeld = FALSE
    /\ reply = <<>>
    /\ effect = TwitchSay(ChannelLogin, <<"Hello! I am the Stuck-Bot, How may I unstick you?">>)
    /\ joinResult = "none"
    /\ fmtResult = NoFormat
    /\ sendFailed = FALSE
    /\ joined = <<>>

-----------------------------------------------------------------------------
(* main: the greeting sent before the dispatch task is spawned *)

HelloSayDone ==
    /\ pc = "hello_say"
    /\ \E ok \in BOOLEAN :
          pc' = IF ok THEN "recv" ELSE "panicked"
    /\ UNCHANGED <<event, msg, cmd, queue, lockHeld, reply, effect, joinResult,
                   fmtResult, sendFailed, joined>>

-----------------------------------------------------------------------------
(* The dispatch task: while let Some(message) = incoming_messages.recv() *)

RecvPrivmsg ==
    /\ pc = "recv"
    /\ \E text \in DispatchTexts, login \in Logins :
          LET m == test_msg(text, login)
              c == parse_msg(m)
          IN /\ msg' = m
             /\ cmd' = c
             /\ pc' = IF c = None THEN "recv" ELSE "handle"
    /\ event' = "privmsg"
    /\ reply' = <<>>
    /\ effect' = NoEffect
    /\ joinResult' = "none"
    /\ fmtResult' = NoFormat
    /\ UNCHANGED <<queue, lockHeld, sendFailed, joined>>

RecvOther ==
    /\ pc = "recv"
    /\ event' = "other"
    /\ UNCHANGED <<pc, msg, cmd, queue, lockHeld, reply, effect, joinResult,
                   fmtResult, sendFailed, joined>>

RecvEnd ==
    /\ pc = "recv"
    /\ event' = "closed"
    /\ pc' = "ended"
    /\ UNCHANGED <<msg, cmd, queue, lockHeld, reply, effect, joinResult,
                   fmtResult, sendFailed, joined>>

-----------------------------------------------------------------------------
(* TwitchCommand::handle, one action per stretch between suspension points *)

\* Join: the reply is handed to twitch_client.say and awaited.
JoinSay ==
    /\ pc = "handle"
    /\ cmd.type = "Join"
    /\ effect' = TwitchSay(msg.channel_login, JoinReplyText(msg))
    /\ pc' = "join_say"
    /\ UNCHANGED <<event, msg, cmd, queue, lockHeld, reply, joinResult,
                   fmtResult, sendFailed, joined>>

\* Join: say returns; unwrap; on Ok the mutex is locked.
JoinSayDone ==
    /\ pc = "join_say"
    /\ \E ok \in BOOLEAN :
          /\ pc' = IF ok THEN "join_locked" ELSE "panicked"
          /\ lockHeld' = ok
          /\ sendFailed' = (sendFailed \/ ~ok)
    /\ UNCHANGED <<event, msg, cmd, queue, reply, effect, joinResult,
                   fmtResult, joined>>

\* Faulty variant of JoinQueue: joins the display name, not the login.
JoinQueueByName ==
    /\ pc = "join_locked"
    /\ LET r == QueueJoin(queue, msg.sender.name, "Default")
       IN /\ queue' = r.queue
          /\ joinResult' = r.result
          /\ joined' = IF r.result = "Ok" THEN Append(joined, msg.sender.login)
                       ELSE joined
          /\ pc' = IF r.result = "Ok" THEN "recv" ELSE "panicked"
    /\ lockHeld' = FALSE
    /\ UNCHANGED <<event, msg, cmd, reply, effect, fmtResult, sendFailed>>

\* Join: join under the guard; unwrap of its result; the guard is a temporary
\* of the statement and is dropped with it, by return or by unwinding.
JoinQueue ==
    /\ pc = "join_locked"
    /\ LET r == QueueJoin(queue, msg.sender.login, "Default")
       IN /\ queue' = r.queue
          /\ joinResult' = r.result
          /\ joined' = IF r.result = "Ok" THEN Append(joined, msg.sender.login)
                       ELSE joined
          /\ pc' = IF r.result = "Ok" THEN "recv" ELSE "panicked"
    /\ lockHeld' = FALSE
    /\ UNCHANGED <<event, msg, cmd, reply, effect, fmtResult, sendFailed>>

\* Faulty variant of QueueLock: reading the queue also empties it.
QueueLockDraining ==
    /\ pc = "handle"
    /\ cmd.type = "Queue"
    /\ lockHeld' = TRUE
    /\ reply' = join_str(QueueSnapshot(queue), <<", ">>)
    /\ queue' = QueueNew
    /\ pc' = "queue_locked"
    /\ UNCHANGED <<event, msg, cmd, effect, joinResult, fmtResult,
                   sendFailed, joined>>

\* Queue: inside the block, the guard is taken and the queue rendered.
QueueLock ==
    /\ pc = "handle"
    /\ cmd.type = "Queue"
    /\ lockHeld' = TRUE
    /\ reply' = join_str(QueueSnapshot(queue), <<", ">>)
    /\ pc' = "queue_locked"
    /\ UNCHANGED <<event, msg, cmd, queue, effect, joinResult, fmtResult,
                   sendFailed, joined>>

\* Faulty variant of QueueSay: the guard outlives the block.
QueueSayHoldingGuard ==
    /\ pc = "queue_locked"
    /\ effect' = TwitchSay(msg.channel_login, QueueReplyText(msg, reply))
    /\ pc' = "queue_say"
    /\ UNCHANGED <<event, msg, cmd, queue, lockHeld, reply, joinResult,
                   fmtResult, sendFailed, joined>>

\* Queue: the block ends, dropping the guard; the reply is handed to say.
QueueSay ==
    /\ pc = "queue_locked"
    /\ lockHeld' = FALSE
    /\ effect' = TwitchSay(msg.channel_login, QueueReplyText(msg, reply))
    /\ pc' = "queue_say"
    /\ UNCHANGED <<event, msg, cmd, queue, reply, joinResult, fmtResult,
                   sendFailed, joined>>

ReplySay ==
    /\ pc = "handle"
    /\ cmd.type = "ReplyWith"
    /\ effect' = TwitchSay(msg.channel_login, ReplyText(msg, cmd.arg))
    /\ pc' = "reply_say"
    /\ UNCHANGED <<event, msg, cmd, queue, lockHeld, reply, joinResult,
                   fmtResult, sendFailed, joined>>

BroadcastSay ==
    /\ pc = "handle"
    /\ cmd.type = "Broadcast"
    /\ effect' = TwitchSay(msg.channel_login, cmd.arg)
    /\ pc' = "broadcast_say"
    /\ UNCHANGED <<event, msg, cmd, queue, lockHeld, reply, joinResult,
                   fmtResult, sendFailed, joined>>

\* Queue, ReplyWith, Broadcast: say returns; unwrap; the handler returns.
TwitchSayDone ==
    /\ pc \in {"queue_say", "reply_say", "broadcast_say"}
    /\ \E ok \in BOOLEAN :
          /\ pc' = IF ok THEN "recv" ELSE "panicked"
          /\ sendFailed' = (sendFailed \/ ~ok)
    /\ UNCHANGED <<event, msg, cmd, queue, lockHeld, reply, effect, joinResult,
                   fmtResult, joined>>

NothingPost ==
    /\ pc = "handle"
    /\ cmd.type = "Nothing"
    /\ effect' = DiscordSay(<<"This does nothing">>)
    /\ pc' = "nothing_post"
    /\ UNCHANGED <<event, msg, cmd, queue, lockHeld, reply, joinResult,
                   fmtResult, sendFailed, joined>>

\* DiscordSnippet: rustfmt is spawned and waited for.
SnippetFormat ==
    /\ pc = "handle"
    /\ cmd.type = "DiscordSnippet"
    /\ pc' = "snippet_format"
    /\ UNCHANGED <<event, msg, cmd, queue, lockHeld, reply, effect, joinResult,
                   fmtResult, sendFailed, joined>>

\* Faulty variant of SnippetFormatDone: unwrap_or_default for unwrap_or.
SnippetFormatDoneOrDefault ==
    /\ pc = "snippet_format"
    /\ \E r \in format_snippet(cmd.arg) :
          LET formatted == IF r.ok THEN r.out ELSE <<>>
              code_block == FenceOpen \o formatted \o FenceClose
          IN /\ fmtResult' = r
             /\ effect' = DiscordSay(code_block)
    /\ pc' = "snippet_post"
    /\ UNCHANGED <<event, msg, cmd, queue, lockHeld, reply, joinResult,
                   sendFailed, joined>>

\* DiscordSnippet: format_snippet returns; unwrap_or(snippet); the code block
\* is handed to ChannelId::say.
SnippetFormatDone ==
    /\ pc = "snippet_format"
    /\ \E r \in format_snippet(cmd.arg) :
          LET formatted == IF r.ok THEN r.out ELSE cmd.arg
              code_block == FenceOpen \o formatted \o FenceClose
          IN /\ fmtResult' = r
             /\ effect' = DiscordSay(code_block)
    /\ pc' = "snippet_post"
    /\ UNCHANGED <<event, msg, cmd, queue, lockHeld, reply, joinResult,
                   sendFailed, joined>>

\* Nothing, DiscordSnippet: the post returns and its result is discarded.
DiscordPostDone ==
    /\ pc \in {"nothing_post", "snippet_post"}
    /\ \E ok \in BOOLEAN : pc' = "recv"
    /\ UNCHANGED <<event, msg, cmd, queue, lockHeld, reply, effect, joinResult,
                   fmtResult, sendFailed, joined>>

Next ==
    \/ HelloSayDone
    \/ RecvPrivmsg
    \/ RecvOther
    \/ RecvEnd
    \/ JoinSay
    \/ JoinSayDone
    \/ JoinQueue
    \/ QueueLock
    \/ QueueSay
    \/ ReplySay
    \/ BroadcastSay
    \/ TwitchSayDone
    \/ NothingPost
    \/ SnippetFormat
    \/ SnippetFormatDone
    \/ DiscordPostDone

Spec == Init /\ [][Next]_vars

-----------------------------------------------------------------------------
(* parse_msg on its own: tests::parsing_commands over a set of texts *)

InitParse ==
    /\ pc = "parse"
    /\ event = "none"
    /\ msg \in {test_msg(t, "login") : t \in TextsOf(MaxPieces)}
    /\ cmd = None
    /\ queue = QueueNew
    /\ lockHeld = FALSE
    /\ reply = <<>>
    /\ effect = NoEffect
    /\ joinResult = "none"
    /\ fmtResult = NoFormat
    /\ sendFailed = FALSE
    /\ joined = <<>>

ParseStep ==
    /\ pc = "parse"
    /\ cmd' = parse_msg(msg)
    /\ pc' = "parsed"
    /\ UNCHANGED <<event, msg, queue, lockHeld, reply, effect, joinResult,
                   fmtResult, sendFailed, joined>>

NextParse == ParseStep

SpecParse == InitParse /\ [][NextParse]_vars

-----------------------------------------------------------------------------
(* Properties *)

Alive == pc # "panicked"

Occurrences(seq, x) == Cardinality({i \in 1..Len(seq) : seq[i] = x})

NoRepeats(seq) == \A i, j \in 1..Len(seq) : i # j => seq[i] # seq[j]

\* C1: a failed origin-chat send while handling a command never stops the
\* dispatch loop: the task is still alive to take the next inbound event.
C1_SendFailureKeepsLoop == sendFailed => Alive

\* C2: a duplicate !join, whose join returns AlreadyQueued, does not abort
\* dispatch: the task is still alive to take the events that follow it.
C2_DuplicateJoinKeepsLoop == joinResult = "AlreadyQueued" => Alive

\* C3: every identity is in the queue at most once; a join attempt by a sender
\* leaves that sender in the snapshot exactly once; a sender's join succeeds
\* once, and a join that fails with AlreadyQueued follows that success.
C3_QueueNoDuplicates ==
    /\ NoRepeats(QueueSnapshot(queue))
    /\ NoRepeats(joined)
    /\ joinResult # "none" =>
          Occurrences(QueueSnapshot(queue), msg.sender.login) = 1
    /\ joinResult = "AlreadyQueued" => Occurrences(joined, msg.sender.login) = 1
    /\ joinResult = "Ok" =>
          /\ Len(joined) > 0
          /\ joined[Len(joined)] = msg.sender.login

C3_Witness ==
    /\ joinResult = "AlreadyQueued"
    /\ Len(queue) = 2
    /\ Occurrences(QueueSnapshot(queue), msg.sender.login) = 1

\* The first whitespace-delimited token of a text, found by position.
FirstToken(t) ==
    LET nonWs == {i \in 1..Len(t) : t[i] \notin WhiteSpace}
    IN IF nonWs = {} THEN <<>>
       ELSE LET first == CHOOSE i \in nonWs : \A k \in nonWs : i <= k
                wsAfter == {i \in first..Len(t) : t[i] \in WhiteSpace}
                last == IF wsAfter = {} THEN Len(t)
                        ELSE (CHOOSE i \in wsAfter : \A k \in wsAfter : i <= k) - 1
            IN SubSeq(t, first, last)

\* The table of trigger tokens: the variant, and its fixed text if it has one.
TableEntry(tok) ==
    CASE tok = T_join -> <<"Join", <<>>>>
      [] tok = T_queue -> <<"Queue", <<>>>>
      [] tok = T_pythonsucks -> <<"ReplyWith", <<"This must be Lord">>>>
      [] tok = T_stonk -> <<"ReplyWith", <<"yOu shOULd Buy AMC sTOnKS">>>>
      [] tok = T_cpp -> <<"ReplyWith", <<"segmentation fault">>>>
      [] tok = T_dave -> <<"Broadcast", <<"assets/dave.txt">>>>
      [] tok = T_bazylia -> <<"Broadcast", <<"assets/bazylia.txt">>>>
      [] tok = T_zoya -> <<"Broadcast", <<"assets/zoya.txt">>>>
      [] tok = T_discord -> <<"Broadcast", <<"https://discord.gg/UyrsFX7N">>>>
      [] tok = T_nothing -> <<"Nothing", <<>>>>
      [] tok = T_code -> <<"DiscordSnippet", <<>>>>

\* C4: a text that does not start with '!' is no command; a text that starts
\* with '!' and whose first token is a known trigger token is the variant the
\* table gives that token (with the table's text, for a reply or a broadcast);
\* a text that starts with '!' and whose first token is unknown is no command.
C4_ParseMsgTable ==
    pc = "parsed" =>
        LET t == msg.message_text
            tok == FirstToken(t)
        IN /\ ~starts_with(t, "!") => cmd = None
           /\ (starts_with(t, "!") /\ tok \in KnownTokens) =>
                 /\ cmd.type = TableEntry(tok)[1]
                 /\ cmd.type # "DiscordSnippet" => cmd.arg = TableEntry(tok)[2]
           /\ (starts_with(t, "!") /\ tok \notin KnownTokens) => cmd = None

C4_Witness ==
    /\ pc = "parsed"
    /\ msg.message_text = T_stonk \o <<"\t">> \o T_join
    /\ cmd = ReplyWith("yOu shOULd Buy AMC sTOnKS")

\* What follows the first token and the one separator after it.
AfterFirstToken(t) ==
    LET n == Len(FirstToken(t))
    IN IF Len(t) <= n + 1 THEN <<>> ELSE SubSeq(t, n + 2, Len(t))

\* C5: the payload of a !code command is everything after the first token,
\* verbatim: only the leading trigger token (and its separator) is removed.
C5_SnippetPayloadVerbatim ==
    (pc = "parsed" /\ cmd.type = "DiscordSnippet") =>
        cmd.arg = AfterFirstToken(msg.message_text)

\* C6: the secondary-chat post of a snippet is the fixed code-block markers
\* around the formatter's output when it succeeded, and around the original
\* snippet text when it failed.
C6_FormatterFallback ==
    fmtResult # NoFormat =>
        /\ effect.chan = "discord"
        /\ fmtResult.ok =>
              effect.text = FenceOpen \o fmtResult.out \o FenceClose
        /\ ~fmtResult.ok =>
              effect.text = FenceOpen \o cmd.arg \o FenceClose

C6_Witness ==
    /\ pc = "snippet_post"
    /\ ~fmtResult.ok
    /\ effect.text = FenceOpen \o <<"x", "+", "y">> \o FenceClose

\* C7: the snapshot lists the identities whose joins succeeded in the order
\* those joins were processed, every one of them with the Default role.
C7_FifoOrder ==
    /\ QueueSnapshot(queue) = joined
    /\ \A i \in 1..Len(queue) : queue[i].role = "Default"

C7_Witness == QueueSnapshot(queue) = <<"bob", "carol", "alice">>

IOStates ==
    {"hello_say", "join_say", "queue_say", "reply_say", "broadcast_say",
     "nothing_post", "snippet_format", "snippet_post"}

\* C8: while a chat send, a secondary-chat post or the formatter is in
\* progress the queue mutex is not held; it is held only in Join after the
\* reply send completed, and in Queue before the reply send starts.
C8_NoLockAcrossIO ==
    /\ pc \in IOStates => ~lockHeld
    /\ lockHeld => pc \in {"join_locked", "queue_locked"}

C8_Witness ==
    /\ pc = "queue_say"
    /\ Len(queue) = 2
    /\ ~lockHeld

\* C9: once the Join arm runs, the reply "@<login>: Join requested" has been
\* handed to the origin chat, with the same text whether the join then
\* succeeds or fails with AlreadyQueued.
C9_JoinAlwaysAcknowledged ==
    (cmd.type = "Join" /\ pc # "handle") =>
        effect = TwitchSay(ChannelLogin, <<"@", msg.sender.login, ": Join requested">>)

C9_Witness ==
    /\ cmd.type = "Join"
    /\ joinResult = "AlreadyQueued"
    /\ effect.text = <<"@", "bob", ": Join requested">>

\* C10: only the join of the Join arm changes the queue; every other step,
\* of any other command and of any message that is no command, leaves the
\* queue's contents and order as they were.
C10_OnlyJoinMutatesQueue ==
    [][queue' # queue => (cmd.type = "Join" /\ pc = "join_locked")]_vars

C10_Witness ==
    /\ pc = "recv"
    /\ cmd.type = "Queue"
    /\ effect.text = <<"@", "alice", ": Current queue: ", "bob", ", ", "alice">>
    /\ QueueSnapshot(queue) = <<"bob", "alice">>

====
